---- MODULE Spec2Model ----
(***************************************************************************)
(* Model of src/app.js: three successive versions of a small client that   *)
(* loads a list of items through a retrying, caching request wrapper.      *)
(*   version 0 : lines   1-234 (frozen CONFIG, validating CacheManager)    *)
(*   version 1 : lines 236-410 (plain CONFIG, unvalidated CacheManager)    *)
(*   version 2 : lines 412-606 (error-shaped result, remove(), no finally) *)
(* Times are milliseconds, as in Date.now() and setTimeout.                *)
(***************************************************************************)
EXTENDS Integers, Sequences, FiniteSets, TLC

VARIABLES
  version,        \* which of the three versions of the script runs
  retryCount,     \* CONFIG.RETRY_COUNT / CONFIG.retryCount
  enableCache,    \* CONFIG.ENABLE_CACHE / CONFIG.enableCache
  honoursSignal,  \* does the transport reject when its AbortSignal fires
  store,          \* CacheManager._store : Map key -> {value, expiresAt}
  now,            \* Date.now()
  ticks,          \* number of clock advances so far (bounded)
  ops,            \* number of direct cache calls so far (bounded)
  lastOp,         \* the most recent direct cache call and what it returned
  prevOp,         \* the direct cache call before it
  loading,        \* state.loading
  error,          \* state.error : <<>> for null, <<message>> otherwise
  data,           \* state.data
  lastUpdated,    \* state.lastUpdated (version 2)
  pc,             \* "idle" | "fetch" (request suspended at await fakeFetch)
  loads,          \* number of loadItems calls started
  attempts,       \* request's local `attempts`
  calls,          \* transport calls made by the current/last request
  aborted,        \* controller.signal.aborted of the attempt in flight
  timers,         \* pending setTimeout timers: records [req, id, due]
  obs,            \* observations of the current/last request and load
  itemsArg,       \* the array handed to filterActiveItems
  filtered        \* <<>> before the call, <<the array it returned>> after

cfgVars   == <<version, retryCount, enableCache, honoursSignal>>
cacheVars == <<store, lastOp, prevOp, ops>>
clockVars == <<now, ticks>>
stateVars == <<loading, error, data, lastUpdated>>
reqVars   == <<pc, loads, attempts, calls, aborted, timers, obs>>
itemVars  == <<itemsArg, filtered>>
vars      == <<cfgVars, cacheVars, clockVars, stateVars, reqVars, itemVars>>

(***************************************************************************)
(* Bounds of the model.                                                    *)
(***************************************************************************)
MaxRetryCount == 3
MaxLoads      == 2
MaxTicks      == 2
MaxOps        == 3
MaxItems      == 3

Versions == {0, 1, 2}

(***************************************************************************)
(* JavaScript values that flow through the cache and the request.          *)
(* shape: "items"   an object with an items array                          *)
(*        "noitems" an object without an items array                       *)
(*        "str"     a truthy non-object (a non-empty string)               *)
(*        "zero"    a falsy non-object (the number 0)                      *)
(*        "null"    null                                                   *)
(*        "undefined", "error" ({error: true, message}) : results only     *)
(* stamp: the part of a fetched body that differs from call to call        *)
(*        (timestamp: Date.now(), meta.requestId), <<>> when there is none *)
(* fetchedAt / message: <<>> when the field is absent.                     *)
(***************************************************************************)
Val(shape, stamp, fetchedAt, message) ==
  [shape |-> shape, stamp |-> stamp, fetchedAt |-> fetchedAt,
   message |-> message]

Plain(shape) == Val(shape, <<>>, <<>>, <<>>)
Null      == Plain("null")
Undefined == Plain("undefined")

BodyShapes == {"items", "noitems", "str", "zero", "null"}

\* !x
Falsy(v) == v.shape \in {"null", "zero", "undefined"}
Truthy(v) == ~Falsy(v)

\* typeof x === 'object' (true of null as well)
TypeofObject(v) == v.shape \in {"items", "noitems", "error", "null"}

\* Array.isArray(x.items), for an x that is not null/undefined
HasItemsArray(v) == v.shape = "items"

(***************************************************************************)
(* CONFIG of each version.                                                 *)
(***************************************************************************)
DefaultTtl(v) == IF v = 2 THEN 3000 ELSE 5000

Timeout(v) == IF v = 2 THEN 2000 ELSE 3000

\* DEFAULT_API_PATH / the "/items" literal of loadItems
ApiPath == "/items"

\* DEFAULT_API_PARAMS / the params literal of loadItems, as the ordered
\* list of the object's own properties
NumParam(name, n) == [name |-> name, isNum |-> TRUE, num |-> n, str |-> ""]
StrParam(name, t) == [name |-> name, isNum |-> FALSE, num |-> 0, str |-> t]

ApiParams(v) ==
  IF v = 2 THEN <<NumParam("limit", 5), StrParam("sort", "score")>>
           ELSE <<NumParam("limit", 10), StrParam("sort", "desc")>>

\* JSON.stringify of a flat object of numbers and strings
Quote(t) == "\"" \o t \o "\""

JsonMember(p) ==
  Quote(p.name) \o ":" \o (IF p.isNum THEN ToString(p.num) ELSE Quote(p.str))

RECURSIVE JsonMembers(_)
JsonMembers(ps) ==
  IF ps = <<>> THEN ""
  ELSE IF Len(ps) = 1 THEN JsonMember(Head(ps))
  ELSE JsonMember(Head(ps)) \o "," \o JsonMembers(Tail(ps))

JsonStringify(ps) == "{" \o JsonMembers(ps) \o "}"

\* `${path}:${JSON.stringify(options.params || {})}`
CacheKey(path, ps) == path \o ":" \o JsonStringify(ps)

RequestKey(v) == CacheKey(ApiPath, ApiParams(v))

(***************************************************************************)
(* CacheManager.  The store is a Map: a function whose domain is the set   *)
(* of keys present.  An entry is {value, expiresAt}.                       *)
(***************************************************************************)
Entry(value, expiresAt) == [value |-> value, expiresAt |-> expiresAt]

\* mutant: the first write wins
MapSetKeepsOld(s, key, e) ==
  [x \in (DOMAIN s) \cup {key} |-> IF x \in DOMAIN s THEN s[x] ELSE e]

\* Map.prototype.set
MapSet(s, key, e) ==
  [x \in (DOMAIN s) \cup {key} |-> IF x = key THEN e ELSE s[x]]

\* mutant: delete removes nothing
MapDeleteKeeps(s, key) == s

\* Map.prototype.delete
MapDelete(s, key) == [x \in (DOMAIN s) \ {key} |-> s[x]]

\* new Map() / Map.prototype.clear
EmptyMap == [x \in {} |-> Null]

\* !key, for a string key
KeyIsFalsy(key) == key = ""

\* Date.now() + ttl
ExpiresAt(t, ttl) == t + ttl

\* mutant: >= in place of >
ExpiredAtBoundary(e, t) == t >= e.expiresAt

\* Date.now() > item.expiresAt
Expired(e, t) == t > e.expiresAt

\* mutant: only the key is validated
SetRejectsKeyOnly(v, key, ttl) == v = 0 /\ KeyIsFalsy(key)

\* set(key, value, ttl): version 0 validates, versions 1 and 2 do not.
\* Result: did it throw, and the store afterwards.
SetRejects(v, key, ttl) == v = 0 /\ (KeyIsFalsy(key) \/ ttl <= 0)

\* mutant: a set replaces the whole store by the one entry
CacheSetDropsOthers(v, s, key, value, ttl, t) ==
  [raised |-> FALSE,
   store  |-> MapSet(EmptyMap, key, Entry(value, ExpiresAt(t, ttl)))]

CacheSet(v, s, key, value, ttl, t) ==
  IF SetRejects(v, key, ttl)
    THEN [raised |-> TRUE, store |-> s]
    ELSE [raised |-> FALSE,
          store  |-> MapSet(s, key, Entry(value, ExpiresAt(t, ttl)))]

\* mutant: a get that finds no item empties the store
CacheGetMissResets(v, s, key, t) ==
  IF key \notin DOMAIN s THEN [ret |-> Null, store |-> EmptyMap]
  ELSE IF Expired(s[key], t) THEN [ret |-> Null, store |-> MapDelete(s, key)]
  ELSE [ret |-> s[key].value, store |-> s]

\* get(key): the returned value and the store afterwards (lazy eviction).
CacheGet(v, s, key, t) ==
  IF v = 0 /\ KeyIsFalsy(key) THEN [ret |-> Null, store |-> s]
  ELSE IF key \notin DOMAIN s THEN [ret |-> Null, store |-> s]
  ELSE IF Expired(s[key], t) THEN [ret |-> Null, store |-> MapDelete(s, key)]
  ELSE [ret |-> s[key].value, store |-> s]

\* mutant: remove deletes nothing
CacheRemoveKeeps(s, key) == s

\* remove(key), version 2 only
CacheRemove(s, key) == MapDelete(s, key)

\* mutant: clear leaves the store as it is
CacheClearKeeps(s) == s

\* clear()
CacheClear(s) == EmptyMap

(***************************************************************************)
(* Item derivation.                                                        *)
(***************************************************************************)
\* the items array fakeFetch answers with
FetchedItems(v) ==
  IF v = 2
    THEN <<[id |-> 1, name |-> "Alpha", active |-> TRUE,  score |-> 10],
           [id |-> 2, name |-> "Beta",  active |-> TRUE,  score |-> 5],
           [id |-> 3, name |-> "Gamma", active |-> FALSE, score |-> 1]>>
    ELSE <<[id |-> 1, name |-> "Alpha", active |-> TRUE],
           [id |-> 2, name |-> "Beta",  active |-> FALSE]>>

\* String.prototype.toUpperCase / toLowerCase on the names in use
ToUpperCase(t) ==
  CASE t = "Alpha" -> "ALPHA" [] t = "Beta" -> "BETA" [] t = "Gamma" -> "GAMMA"
    [] OTHER -> t

ToLowerCase(t) ==
  CASE t = "Alpha" -> "alpha" [] t = "Beta" -> "beta" [] t = "Gamma" -> "gamma"
    [] OTHER -> t

\* mutant: the threshold itself passes
IsActiveItemAtThreshold(v, item) ==
  IF v = 2 THEN item.active /\ item.score >= 3 ELSE item.active

\* the predicate handed to items.filter
IsActiveItem(v, item) ==
  IF v = 2 THEN item.active /\ item.score > 3 ELSE item.active

filterActiveItems(v, items) == SelectSeq(items, LAMBDA i : IsActiveItem(v, i))

mapItemNames(v, items) ==
  [n \in DOMAIN items |->
     IF v = 2 THEN ToLowerCase(items[n].name) \o "-" \o ToString(items[n].score)
              ELSE ToUpperCase(items[n].name)]

\* [...items].sort((a, b) => b.score - a.score): a stable descending sort
RECURSIVE InsertByScore(_, _)
InsertByScore(item, sorted) ==
  IF sorted = <<>> THEN <<item>>
  ELSE IF Head(sorted).score >= item.score
         THEN <<Head(sorted)>> \o InsertByScore(item, Tail(sorted))
         ELSE <<item>> \o sorted

RECURSIVE sortByScoreDesc(_)
sortByScoreDesc(items) ==
  IF items = <<>> THEN <<>>
  ELSE InsertByScore(items[Len(items)],
                     sortByScoreDesc(SubSeq(items, 1, Len(items) - 1)))

\* the names loadItems stores in state.data
DerivedNames(v) ==
  IF v = 2
    THEN mapItemNames(v, filterActiveItems(v, sortByScoreDesc(FetchedItems(v))))
    ELSE mapItemNames(v, filterActiveItems(v, FetchedItems(v)))

(***************************************************************************)
(* Outcomes of request, and what loadItems does with them.                 *)
(***************************************************************************)
Return(value)   == [kind |-> "return",  value |-> value,     message |-> ""]
Throw(message)  == [kind |-> "throw",   value |-> Undefined, message |-> message]
Pending         == [kind |-> "pending", value |-> Undefined, message |-> ""]

\* error.message of the failures an attempt can meet
MsgRejected  == "network error"
MsgAborted   == "The operation was aborted"
MsgHttp      == "HTTP 500"
MsgBadData   == "response data format error"
MsgCacheSet  == "cache set failed"
MsgNoItems   == "API response has no items array"
MsgTypeError == "TypeError"

\* the terminal failure of request once attempts >= retryCount
Exhausted(v, message) ==
  CASE v = 0 -> Throw("Max retry reached: " \o message)
    [] v = 1 -> Throw("Max retry reached")
    [] OTHER -> Return(Val("error", <<>>, <<>>, <<"Request failed completely">>))

\* what request returns for accepted response data
Accepted(v, body, t) ==
  IF v = 2
    THEN Return(Val(IF body.shape = "items" THEN "items" ELSE "noitems",
                    body.stamp, <<t>>, <<>>))
    ELSE Return(body)

\* the rest of loadItems once request has settled with `out`:
\* the new state object and whether loadItems returned or threw
StateAfter(ld, err, dt, lu, ended) ==
  [loading |-> ld, error |-> err, data |-> dt, lastUpdated |-> lu,
   ended |-> ended]

Failed(message) == StateAfter(FALSE, <<message>>, data, lastUpdated, "returned")

LoadedV01(v) == StateAfter(FALSE, <<>>, DerivedNames(v), lastUpdated, "returned")

AfterRequestV0(out) ==
  IF out.kind = "throw" THEN Failed(out.message)
  ELSE IF Falsy(out.value) \/ ~HasItemsArray(out.value) THEN Failed(MsgNoItems)
  ELSE LoadedV01(0)

AfterRequestV1(out) ==
  IF out.kind = "throw" THEN Failed(out.message)
  ELSE IF ~HasItemsArray(out.value) THEN Failed(MsgTypeError)
  ELSE LoadedV01(1)

AfterRequestV2(out) ==
  IF out.kind = "throw" \/ out.value.shape \in {"null", "undefined"}
    THEN StateAfter(TRUE, <<>>, data, lastUpdated, "threw")
  ELSE IF out.value.shape = "error"
    THEN Failed(out.value.message[1])
  ELSE IF ~HasItemsArray(out.value)
    THEN StateAfter(TRUE, <<>>, data, lastUpdated, "threw")
  ELSE StateAfter(FALSE, <<>>, DerivedNames(2),
                  [set |-> TRUE, at |-> out.value.fetchedAt], "returned")

AfterRequest(v, out) ==
  CASE v = 0 -> AfterRequestV0(out)
    [] v = 1 -> AfterRequestV1(out)
    [] OTHER -> AfterRequestV2(out)

(***************************************************************************)
(* Initial state: the script has been loaded, nothing has run.             *)
(***************************************************************************)
NoOp ==
  [op |-> "none", key |-> "", value |-> Null, ttl |-> 0, at |-> 0,
   raised |-> FALSE, ret |-> Null, pre |-> <<>>]

IdleObs ==
  [key |-> "", hit |-> FALSE, pre |-> <<>>, fails |-> 0, oks |-> 0,
   timeouts |-> 0, lastBody |-> Undefined, writes |-> 0,
   writeRaised |-> FALSE, result |-> Pending, ended |-> "none",
   populated |-> <<>>]

Init ==
  /\ version \in Versions
  /\ retryCount \in 1..MaxRetryCount
  /\ enableCache \in BOOLEAN
  /\ honoursSignal \in BOOLEAN
  /\ store = EmptyMap
  /\ now = 0
  /\ ticks = 0
  /\ ops = 0
  /\ lastOp = NoOp
  /\ prevOp = NoOp
  /\ loading = FALSE
  /\ error = <<>>
  /\ data = <<>>
  /\ lastUpdated = [set |-> FALSE, at |-> <<>>]
  /\ pc = "idle"
  /\ loads = 0
  /\ attempts = 0
  /\ calls = 0
  /\ aborted = FALSE
  /\ timers = {}
  /\ obs = IdleObs
  /\ itemsArg = <<>>
  /\ filtered = <<>>

(***************************************************************************)
(* The clock.                                                              *)
(***************************************************************************)
TickSteps(v) == {1, DefaultTtl(v)}

Tick(d) ==
  /\ ticks < MaxTicks
  /\ now' = now + d
  /\ ticks' = ticks + 1
  /\ UNCHANGED <<cfgVars, cacheVars, stateVars, reqVars, itemVars>>

(***************************************************************************)
(* request and loadItems.                                                  *)
(***************************************************************************)
\* while (attempts < CONFIG.RETRY_COUNT)
LoopContinues(a, rc) == a < rc

\* mutant: > in place of >=
RetriesSpentLate(a, rc) == a > rc

\* if (attempts >= CONFIG.RETRY_COUNT)
RetriesSpent(a, rc) == a >= rc

\* if (cached)
IsHit(cached) == Truthy(cached)

\* mutant: the lookup is made whatever the flag says
LookupAlways(flag, v, s, key, t) == CacheGet(v, s, key, t)

\* if (CONFIG.ENABLE_CACHE) { const cached = cache.get(cacheKey); ... }
Lookup(flag, v, s, key, t) ==
  IF flag THEN CacheGet(v, s, key, t) ELSE [ret |-> Null, store |-> s]

\* mutant: the validation inverted
DataRejectedInverted(v, body) == v = 0 /\ ~(Falsy(body) \/ ~TypeofObject(body))

\* if (!data || typeof data !== 'object') throw ..., version 0 only
DataRejected(v, body) == v = 0 /\ (Falsy(body) \/ ~TypeofObject(body))

\* is cache.set wrapped in its own try/catch
SetIsGuarded(v) == v = 0

\* setTimeout(() => controller.abort(), CONFIG.API.TIMEOUT)
Timer(r, id, t) == [req |-> r, id |-> id, due |-> t + Timeout(version)]

\* the timer of the attempt in flight, if still pending
CurrentTimers == {t \in timers : t.req = loads /\ t.id = calls}

\* request settles with `out`; loadItems runs on to its end
Settled(out, store1, timers1, obs1) ==
  LET st == AfterRequest(version, out) IN
  /\ pc' = "idle"
  /\ store' = store1
  /\ timers' = timers1
  /\ aborted' = FALSE
  /\ obs' = [obs1 EXCEPT !.result = out, !.ended = st.ended]
  /\ loading' = st.loading
  /\ error' = st.error
  /\ data' = st.data
  /\ lastUpdated' = st.lastUpdated

\* the catch block of the retry loop, then the loop condition
AttemptFailed(message, timers1, obs1) ==
  /\ attempts' = attempts + 1
  /\ IF RetriesSpent(attempts + 1, retryCount)
       THEN /\ calls' = calls
            /\ Settled(Exhausted(version, message), store, timers1, obs1)
     ELSE IF LoopContinues(attempts + 1, retryCount)
       THEN /\ calls' = calls + 1
            /\ timers' = timers1 \cup {Timer(loads, calls + 1, now)}
            /\ aborted' = FALSE
            /\ pc' = "fetch"
            /\ obs' = obs1
            /\ UNCHANGED <<store, stateVars>>
     ELSE /\ calls' = calls
          /\ Settled(Return(Undefined), store, timers1, obs1)

\* loadItems up to the first await inside request: the flags, the cache
\* lookup, and on a miss the first attempt
LoadItems ==
  /\ pc = "idle"
  /\ loads < MaxLoads
  /\ loads' = loads + 1
  /\ attempts' = 0
  /\ LET key  == RequestKey(version)
         got  == Lookup(enableCache, version, store, key, now)
         seen == IF key \in DOMAIN store /\ ~Expired(store[key], now)
                   THEN <<store[key]>> ELSE <<>>
         obs0 == [IdleObs EXCEPT !.key = key, !.pre = seen, !.ended = "running",
                                 !.populated = obs.populated]
     IN IF enableCache /\ IsHit(got.ret)
          THEN /\ calls' = 0
               /\ Settled(Return(got.ret), got.store, timers,
                          [obs0 EXCEPT !.hit = TRUE])
        ELSE IF LoopContinues(0, retryCount)
          THEN /\ calls' = 1
               /\ timers' = timers \cup {Timer(loads + 1, 1, now)}
               /\ aborted' = FALSE
               /\ pc' = "fetch"
               /\ store' = got.store
               /\ obs' = obs0
               /\ loading' = TRUE
               /\ error' = <<>>
               /\ UNCHANGED <<data, lastUpdated>>
        ELSE /\ calls' = 0
             /\ Settled(Return(Undefined), got.store, timers, obs0)
  /\ UNCHANGED <<cfgVars, clockVars, lastOp, prevOp, ops, itemVars>>

\* what the transport can answer: a rejection, a non-success status, or
\* a success whose body has one of the shapes
TransportOutcomes ==
  {[kind |-> "reject", shape |-> "null"], [kind |-> "notok", shape |-> "null"]}
    \cup {[kind |-> "ok", shape |-> sh] : sh \in BodyShapes}

FetchedBody(shape) ==
  Val(shape, IF shape \in {"items", "noitems"} THEN <<loads, calls>> ELSE <<>>,
      <<>>, <<>>)

\* the transport call in flight settles; `fault` is whether the cache
\* write, if one is made, throws
TransportSettle(o, fault) ==
  /\ pc = "fetch"
  /\ \A t \in CurrentTimers : now <= t.due
  /\ LET cleared == timers \ CurrentTimers
         failed  == [obs EXCEPT !.fails = @ + 1]
         body    == FetchedBody(o.shape)
         okObs   == [obs EXCEPT !.oks = @ + 1, !.lastBody = body]
         w       == CacheSet(version, store, obs.key, body,
                             DefaultTtl(version), now)
         out     == Accepted(version, body, now)
     IN CASE o.kind = "reject" -> AttemptFailed(MsgRejected, timers, failed)
          [] o.kind = "notok"  -> AttemptFailed(MsgHttp, cleared, failed)
          [] OTHER ->
               IF DataRejected(version, body)
                 THEN AttemptFailed(MsgBadData, cleared, okObs)
               ELSE IF ~enableCache
                 THEN /\ Settled(out, store, cleared, okObs)
                      /\ UNCHANGED <<attempts, calls>>
               ELSE IF fault \/ w.raised
                 THEN IF SetIsGuarded(version)
                        THEN /\ Settled(out, store, cleared,
                                        [okObs EXCEPT !.writeRaised = TRUE])
                             /\ UNCHANGED <<attempts, calls>>
                        ELSE AttemptFailed(MsgCacheSet, cleared,
                                        [okObs EXCEPT !.writeRaised = TRUE])
               ELSE /\ Settled(out, w.store, cleared,
                               [okObs EXCEPT !.writes = @ + 1,
                                             !.populated = <<out.value>>])
                    /\ UNCHANGED <<attempts, calls>>
  /\ UNCHANGED <<cfgVars, clockVars, lastOp, prevOp, ops, loads, itemVars>>

\* a pending timeout fires: controller.abort()
TimerFire(t) ==
  /\ t \in timers
  /\ now >= t.due
  /\ IF pc = "fetch" /\ t \in CurrentTimers
       THEN IF honoursSignal
              THEN AttemptFailed(MsgAborted, timers \ {t},
                     [obs EXCEPT !.fails = @ + 1, !.timeouts = @ + 1])
              ELSE /\ timers' = timers \ {t}
                   /\ aborted' = TRUE
                   /\ UNCHANGED <<store, stateVars, pc, attempts, calls, obs>>
       ELSE /\ timers' = timers \ {t}
            /\ UNCHANGED <<store, stateVars, pc, attempts, calls, obs, aborted>>
  /\ UNCHANGED <<cfgVars, clockVars, lastOp, prevOp, ops, loads, itemVars>>

(***************************************************************************)
(* Direct calls on the cache by a client, between loads.                   *)
(***************************************************************************)
ClientKeys(v) == {"", RequestKey(v)}

ClientValues == {Plain(sh) : sh \in {"items", "zero", "null"}}

ClientTtls == {0 - 1, 0, 1}

PreEntry(key) == IF key \in DOMAIN store THEN <<store[key]>> ELSE <<>>

Called(op, key, value, ttl, raised, ret) ==
  [op |-> op, key |-> key, value |-> value, ttl |-> ttl, at |-> now,
   raised |-> raised, ret |-> ret, pre |-> PreEntry(key)]

ClientCall(rec, store1) ==
  /\ pc = "idle"
  /\ ops < MaxOps
  /\ ops' = ops + 1
  /\ store' = store1
  /\ lastOp' = rec
  /\ prevOp' = lastOp
  /\ UNCHANGED <<cfgVars, clockVars, stateVars, reqVars, itemVars>>

ClientSet(key, value, ttl) ==
  LET r == CacheSet(version, store, key, value, ttl, now)
  IN ClientCall(Called("set", key, value, ttl, r.raised, Undefined), r.store)

ClientGet(key) ==
  LET r == CacheGet(version, store, key, now)
  IN ClientCall(Called("get", key, Undefined, 0, FALSE, r.ret), r.store)

ClientRemove(key) ==
  /\ version = 2
  /\ ClientCall(Called("remove", key, Undefined, 0, FALSE, Undefined),
                CacheRemove(store, key))

ClientClear ==
  ClientCall(Called("clear", "", Undefined, 0, FALSE, Undefined),
             CacheClear(store))

(***************************************************************************)
(* The specification.                                                      *)
(***************************************************************************)
Next ==
  \/ \E d \in TickSteps(version) : Tick(d)
  \/ LoadItems
  \/ \E o \in TransportOutcomes : TransportSettle(o, FALSE)
  \/ \E t \in timers : TimerFire(t)

Spec == Init /\ [][Next]_vars

\* the same program with a cache whose set can throw when request stores
\* an accepted response
CacheWriteFault ==
  /\ enableCache
  /\ \E o \in TransportOutcomes :
       /\ o.kind = "ok"
       /\ ~DataRejected(version, FetchedBody(o.shape))
       /\ TransportSettle(o, TRUE)

FaultNext == Next \/ CacheWriteFault

FaultSpec == Init /\ [][FaultNext]_vars

\* the same program started on a cache that other callers have already
\* written: an entry under another request's key, and possibly an entry
\* under this request's key, each set at time 0 with a TTL of 1
OtherKey == CacheKey("/users", <<>>)

WarmEntry == Entry(Plain("items"), ExpiresAt(0, 1))

WarmStores(v) ==
  {MapSet(EmptyMap, OtherKey, WarmEntry),
   MapSet(MapSet(EmptyMap, OtherKey, WarmEntry), RequestKey(v), WarmEntry)}

WarmInit ==
  /\ version \in Versions
  /\ retryCount \in 1..MaxRetryCount
  /\ enableCache \in BOOLEAN
  /\ honoursSignal \in BOOLEAN
  /\ store \in WarmStores(version)
  /\ now = 0
  /\ ticks = 0
  /\ ops = 0
  /\ lastOp = NoOp
  /\ prevOp = NoOp
  /\ loading = FALSE
  /\ error = <<>>
  /\ data = <<>>
  /\ lastUpdated = [set |-> FALSE, at |-> <<>>]
  /\ pc = "idle"
  /\ loads = 0
  /\ attempts = 0
  /\ calls = 0
  /\ aborted = FALSE
  /\ timers = {}
  /\ obs = IdleObs
  /\ itemsArg = <<>>
  /\ filtered = <<>>

WarmSpec == WarmInit /\ [][Next]_vars

\* the cache alone, under the configuration each version ships with
ConfiguredRetryCount(v) == IF v = 2 THEN 2 ELSE 3

ConfiguredEnableCache(v) == v # 2

CacheInit ==
  /\ Init
  /\ retryCount = ConfiguredRetryCount(version)
  /\ enableCache = ConfiguredEnableCache(version)
  /\ honoursSignal = FALSE

CacheNext ==
  \/ \E d \in TickSteps(version) : Tick(d)
  \/ \E k \in ClientKeys(version), x \in ClientValues, ttl \in ClientTtls :
       ClientSet(k, x, ttl)
  \/ \E k \in ClientKeys(version) : ClientGet(k)
  \/ \E k \in ClientKeys(version) : ClientRemove(k)
  \/ ClientClear

CacheSpec == CacheInit /\ [][CacheNext]_vars

\* the derivation helper alone: filterActiveItems applied once to an array
\* of items, each with an active flag and a score
ItemScores == {2, 3, 4, 9, 10}

ItemPool == {[active |-> a, score |-> n] : a \in BOOLEAN, n \in ItemScores}

RECURSIVE ItemLists(_)
ItemLists(n) ==
  IF n = 0 THEN {<<>>}
  ELSE LET shorter == ItemLists(n - 1)
       IN shorter \cup {Append(l, i) : l \in shorter, i \in ItemPool}

DeriveInit ==
  /\ version \in Versions
  /\ retryCount = ConfiguredRetryCount(version)
  /\ enableCache = ConfiguredEnableCache(version)
  /\ honoursSignal = FALSE
  /\ store = EmptyMap
  /\ now = 0
  /\ ticks = 0
  /\ ops = 0
  /\ lastOp = NoOp
  /\ prevOp = NoOp
  /\ loading = FALSE
  /\ error = <<>>
  /\ data = <<>>
  /\ lastUpdated = [set |-> FALSE, at |-> <<>>]
  /\ pc = "idle"
  /\ loads = 0
  /\ attempts = 0
  /\ calls = 0
  /\ aborted = FALSE
  /\ timers = {}
  /\ obs = IdleObs
  /\ itemsArg \in ItemLists(MaxItems)
  /\ filtered = <<>>

FilterItems ==
  /\ filtered = <<>>
  /\ filtered' = <<filterActiveItems(version, itemsArg)>>
  /\ UNCHANGED <<cfgVars, cacheVars, clockVars, stateVars, reqVars, itemsArg>>

DeriveNext == FilterItems

DeriveSpec == DeriveInit /\ [][DeriveNext]_vars

(***************************************************************************)
(* Properties.                                                             *)
(***************************************************************************)
\* request has settled (returned or raised)
Done == pc = "idle" /\ obs.result.kind # "pending"

\* a raised error or an error-shaped value
TerminalFailure(out) ==
  \/ out.kind = "throw"
  \/ out.kind = "return" /\ out.value.shape = "error"

\* C1 (retry bound): a request never makes more than retryCount transport
\* calls, and one that the cache did not serve and whose transport calls all
\* failed has made exactly retryCount calls, all counted as failures, and
\* ends in a terminal failure.
C1_RetryBound ==
  /\ calls <= retryCount
  /\ (Done /\ ~obs.hit /\ obs.oks = 0) =>
       /\ calls = retryCount
       /\ obs.fails = retryCount
       /\ TerminalFailure(obs.result)

C1_Witness ==
  /\ Done /\ ~obs.hit /\ obs.oks = 0
  /\ retryCount = 3 /\ calls = 3
  /\ TerminalFailure(obs.result)

\* C2 (cache short-circuit, as claimed): with caching enabled, a request
\* that found a non-expired entry under its key, whatever the stored
\* payload, makes no transport call and returns the stored value.
C2_ShortCircuitAnyPayload ==
  (enableCache /\ obs.ended # "none" /\ obs.pre # <<>>
     /\ obs.pre[1].value.shape # "null") =>
     /\ calls = 0
     /\ obs.result = Return(obs.pre[1].value)

\* C3 (retry recovery): when the transport failed on the first
\* retryCount-1 attempts and answered attempt retryCount with a well-formed
\* body, request returns that answer, not a terminal failure, and made no
\* call after it.
C3_RetryRecovery ==
  (Done /\ ~obs.hit /\ obs.fails = retryCount - 1 /\ obs.oks = 1
        /\ obs.lastBody.shape = "items") =>
     /\ obs.result.kind = "return"
     /\ ~TerminalFailure(obs.result)
     /\ obs.result.value.shape = "items"
     /\ obs.result.value.stamp = <<loads, retryCount>>
     /\ calls = retryCount

C3_Witness ==
  /\ Done /\ ~obs.hit /\ retryCount = 3
  /\ obs.fails = 2 /\ obs.oks = 1 /\ obs.lastBody.shape = "items"
  /\ obs.result.kind = "return" /\ calls = 3

\* C4 (timeout as failed attempt, as claimed): once the timeout of the
\* attempt in flight has fired, request is no longer waiting on that
\* attempt: it has been counted as failed.
C4_TimeoutEndsAttempt == ~(pc = "fetch" /\ aborted)

\* C5 (malformed response, strict variant, as claimed): in version 0 a
\* body without an items array is never stored in the cache and never
\* returned by request as a success.
C5_MalformedNeverAccepted ==
  version = 0 =>
     /\ \A k \in DOMAIN store : HasItemsArray(store[k].value)
     /\ (obs.result.kind = "return" => HasItemsArray(obs.result.value))

\* C6 (loading flag, as claimed): whenever no load is running, in
\* particular after every load that has ended, state.loading is false, and
\* a load that ended on a failed request has recorded an error message.
C6_LoadingCleared ==
  /\ pc = "idle" => ~loading
  /\ (Done /\ TerminalFailure(obs.result)) => error # <<>>

C9_RoundTripEveryKey ==
  (lastOp.op = "get" /\ prevOp.op = "set" /\ prevOp.ttl > 0
     /\ prevOp.key = lastOp.key /\ prevOp.at = lastOp.at) =>
     lastOp.ret = prevOp.value

\* set accepts the key: every key in versions 1 and 2, every non-empty key
\* in version 0
KeyAccepted(key) == ~(version = 0 /\ key = "")

\* C9 (set/get round trip, amended): for every key that set accepts, every
\* value and every TTL > 0, a get that directly follows the set, with no
\* time elapsed, returns the value that was set; and after such a set the
\* store holds under the key exactly the new value and the new expiry,
\* whatever was stored there before.
C9_RoundTrip ==
  /\ (lastOp.op = "get" /\ prevOp.op = "set" /\ prevOp.ttl > 0
        /\ KeyAccepted(prevOp.key)
        /\ prevOp.key = lastOp.key /\ prevOp.at = lastOp.at) =>
        lastOp.ret = prevOp.value
  /\ (lastOp.op = "set" /\ lastOp.ttl > 0 /\ KeyAccepted(lastOp.key)) =>
        /\ lastOp.key \in DOMAIN store
        /\ store[lastOp.key] = Entry(lastOp.value, lastOp.at + lastOp.ttl)

C9_Witness ==
  /\ lastOp.op = "get" /\ prevOp.op = "set" /\ prevOp.ttl > 0
  /\ prevOp.key = lastOp.key /\ prevOp.at = lastOp.at
  /\ prevOp.pre # <<>>
  /\ prevOp.pre[1].value # prevOp.value
  /\ prevOp.pre[1].expiresAt # prevOp.at + prevOp.ttl
  /\ Truthy(prevOp.value)
  /\ lastOp.ret = prevOp.value

\* C10 (visibility window): for an entry stored at time s with TTL t, a get
\* of its key at time n returns the stored value when n <= s + t, the
\* instant n = s + t included, and absent (null) when n > s + t.
C10_VisibilityWindow ==
  (lastOp.op = "get" /\ prevOp.op = "set" /\ ~prevOp.raised
     /\ prevOp.key = lastOp.key) =>
     lastOp.ret = IF lastOp.at <= prevOp.at + prevOp.ttl THEN prevOp.value
                                                          ELSE Null

C10_Witness ==
  /\ lastOp.op = "get" /\ prevOp.op = "set" /\ ~prevOp.raised
  /\ prevOp.key = lastOp.key
  /\ prevOp.ttl > 0
  /\ lastOp.at = prevOp.at + prevOp.ttl
  /\ Truthy(prevOp.value)
  /\ lastOp.ret = prevOp.value

\* C11 (lazy eviction): a get of a key whose entry has expired (the clock is
\* past its expiresAt) returns null and the entry is no longer in the store
\* afterwards; and an entry leaves the store or changes only in a step that
\* is a get, remove or set of its key or a clear, never in a step of the
\* clock alone.
C11_LazyEviction ==
  /\ []((lastOp.op = "get" /\ lastOp.pre # <<>>
           /\ lastOp.at > lastOp.pre[1].expiresAt) =>
          /\ lastOp.ret = Null
          /\ lastOp.key \notin DOMAIN store)
  /\ [][\A k \in DOMAIN store :
          (k \notin DOMAIN store' \/ store'[k] # store[k]) =>
             /\ ops' = ops + 1
             /\ now' = now
             /\ lastOp'.op \in {"get", "remove", "clear", "set"}
             /\ lastOp'.op = "clear" \/ lastOp'.key = k]_vars

\* an entry with a positive TTL outlived its TTL in the store while only
\* the clock moved, and the get that followed evicted it
C11_Witness ==
  /\ lastOp.op = "get" /\ prevOp.op = "set" /\ ~prevOp.raised
  /\ prevOp.key = lastOp.key /\ prevOp.ttl > 0
  /\ Truthy(prevOp.value)
  /\ lastOp.pre = <<Entry(prevOp.value, prevOp.at + prevOp.ttl)>>
  /\ lastOp.at > prevOp.at + prevOp.ttl
  /\ lastOp.ret = Null
  /\ lastOp.key \notin DOMAIN store

\* C12 (strict set validation): in the strict version (version 0) every
\* set whose key is empty or whose ttl is <= 0 throws, and the store after
\* the call is exactly the store before it.
C12_StrictSetValidation ==
  [][(version = 0 /\ ops' = ops + 1 /\ lastOp'.op = "set"
        /\ (lastOp'.key = "" \/ lastOp'.ttl <= 0)) =>
       /\ lastOp'.raised
       /\ store' = store]_vars

\* a set with a valid key and ttl 0 on a store that already holds an entry
\* under that key has thrown and the entry is still the old one
C12_Witness ==
  /\ version = 0
  /\ lastOp.op = "set" /\ lastOp.raised
  /\ lastOp.key # "" /\ lastOp.ttl = 0
  /\ lastOp.pre # <<>>
  /\ lastOp.key \in DOMAIN store
  /\ store[lastOp.key] = lastOp.pre[1]
  /\ lastOp.value # lastOp.pre[1].value

\* C13 (remove): a get that directly follows a remove of the same key, at
\* any later time, returns null, whether the key was present, expired or
\* absent before the remove; remove never throws, and a remove step leaves
\* every entry under another key as it was and adds none.
C13_RemoveThenGet ==
  /\ []((lastOp.op = "get" /\ prevOp.op = "remove"
           /\ prevOp.key = lastOp.key) =>
          lastOp.ret = Null)
  /\ [](lastOp.op = "remove" =>
          /\ ~lastOp.raised
          /\ lastOp.key \notin DOMAIN store)
  /\ [][(ops' = ops + 1 /\ lastOp'.op = "remove") =>
          /\ DOMAIN store' = DOMAIN store \ {lastOp'.key}
          /\ \A k \in DOMAIN store' : store'[k] = store[k]]_vars

\* a live entry with a truthy value was removed and the get after it
\* returned null
C13_Witness ==
  /\ lastOp.op = "get" /\ prevOp.op = "remove"
  /\ prevOp.key = lastOp.key
  /\ prevOp.pre # <<>>
  /\ Truthy(prevOp.pre[1].value)
  /\ prevOp.at <= prevOp.pre[1].expiresAt
  /\ lastOp.pre = <<>>
  /\ lastOp.ret = Null

\* C14 (clear idempotence): after a clear the store is empty and the call
\* has not thrown, also when the call before it was a clear; a get that
\* directly follows a clear returns null for every key.
C14_ClearIdempotent ==
  /\ (lastOp.op = "clear" => store = EmptyMap /\ ~lastOp.raised)
  /\ (lastOp.op = "clear" /\ prevOp.op = "clear") =>
        /\ DOMAIN store = {}
        /\ ~prevOp.raised
  /\ (lastOp.op = "get" /\ prevOp.op = "clear") =>
        /\ lastOp.ret = Null
        /\ lastOp.pre = <<>>

\* two clears in a row, the first one on a store that held an entry
C14_Witness ==
  /\ lastOp.op = "clear" /\ prevOp.op = "clear"
  /\ prevOp.pre # <<>>
  /\ lastOp.pre = <<>>
  /\ DOMAIN store = {}

\* C15 (get on a never-set key): a get of a key that has no entry in the
\* store, the empty key included, returns null without throwing and leaves
\* the store exactly as it was, whatever else the store holds.
C15_GetNeverSet ==
  [][(ops' = ops + 1 /\ lastOp'.op = "get"
        /\ lastOp'.key \notin DOMAIN store) =>
       /\ lastOp'.ret = Null
       /\ ~lastOp'.raised
       /\ store' = store]_vars

\* the only call before the get was an accepted set of the other key, so
\* the empty key was never set; the get returned null and the other entry
\* is still stored
C15_Witness ==
  /\ ops = 2
  /\ lastOp.op = "get" /\ lastOp.key = ""
  /\ prevOp.op = "set" /\ prevOp.key # "" /\ ~prevOp.raised
  /\ lastOp.pre = <<>>
  /\ lastOp.ret = Null
  /\ DOMAIN store = {prevOp.key}
  /\ store[prevOp.key].value = prevOp.value

\* the positions of the items that are active with a score above 3
KeptPositions == {i \in DOMAIN itemsArg : itemsArg[i].active /\ itemsArg[i].score > 3}

\* the items the spec's example hands to the filter
ExampleItems ==
  <<[active |-> TRUE, score |-> 10], [active |-> TRUE, score |-> 2],
    [active |-> FALSE, score |-> 9]>>

\* C16 (derivation filter): the thresholded filter (version 2) returns
\* exactly the items with active = true and score > 3, each once and in the
\* order of the input; for the example items it returns exactly the first.
C16_DerivationFilter ==
  (version = 2 /\ filtered # <<>>) =>
     /\ Len(filtered[1]) = Cardinality(KeptPositions)
     /\ \A i \in KeptPositions :
          filtered[1][Cardinality({j \in KeptPositions : j <= i})] = itemsArg[i]
     /\ (itemsArg = ExampleItems => filtered[1] = <<ExampleItems[1]>>)

C16_Witness ==
  /\ version = 2
  /\ itemsArg = ExampleItems
  /\ filtered = <<(<<[active |-> TRUE, score |-> 10]>>)>>

\* C17 (hit/miss result equivalence, as claimed): with caching enabled, the
\* value request returns on a cache hit equals, field by field, the value
\* that the request which wrote the cache entry returned to its caller
\* (stated for entries written from a well-formed response).
C17_HitEqualsMiss ==
  (enableCache /\ Done /\ obs.hit /\ obs.populated # <<>>
     /\ HasItemsArray(obs.populated[1])) =>
     obs.result.value = obs.populated[1]

\* C18 (cache written only on accepted success): the store gains or changes
\* an entry only in the step in which request settles with a success, after
\* a transport answer that was accepted, and only under the request's own
\* key (so at most once per request: the request ends there); an entry
\* leaves the store only when a starting request evicts the expired entry
\* under its own key; and a request that ended in a terminal failure has
\* written nothing.
C18_WriteOnlyOnSuccess ==
  /\ [][\A k \in DOMAIN store' :
          (k \notin DOMAIN store \/ store'[k] # store[k]) =>
             /\ enableCache
             /\ k = obs.key
             /\ pc = "fetch" /\ pc' = "idle"
             /\ obs'.oks = obs.oks + 1
             /\ ~DataRejected(version, obs'.lastBody)
             /\ obs'.result.kind = "return"
             /\ ~TerminalFailure(obs'.result)
             /\ store'[k] = [value |-> obs'.lastBody,
                             expiresAt |-> now + DefaultTtl(version)]]_vars
  /\ [][\A k \in DOMAIN store :
          k \notin DOMAIN store' =>
             /\ enableCache
             /\ loads' = loads + 1
             /\ k = obs'.key
             /\ now > store[k].expiresAt]_vars
  /\ []((Done /\ TerminalFailure(obs.result)) => obs.writes = 0)

\* a request retried after a failure, then stored the accepted answer under
\* its own key, and the other caller's entry is untouched
C18_Witness ==
  /\ enableCache /\ Done
  /\ obs.fails >= 1 /\ obs.oks = 1 /\ obs.writes = 1
  /\ obs.result.kind = "return"
  /\ DOMAIN store = {OtherKey, obs.key}
  /\ store[obs.key].value = obs.lastBody
  /\ store[obs.key].value.stamp = <<loads, calls>>
  /\ store[OtherKey] = WarmEntry

\* C19 (cache disabled means cache untouched): while the cache-enabled flag
\* is false no step changes the store, not even to evict an expired entry
\* under the request's key, no request is served from the cache, and every
\* settled request has made at least one transport call.
C19_DisabledUntouched ==
  /\ [][~enableCache => store' = store]_vars
  /\ [](~enableCache => ~obs.hit /\ obs.writes = 0)
  /\ []((~enableCache /\ Done) => calls >= 1)

\* with the flag off, a request settled with a success after the entry
\* under its key had expired: the expired entry and the other entry are
\* both still stored
C19_Witness ==
  /\ ~enableCache /\ Done
  /\ obs.result.kind = "return" /\ obs.oks = 1
  /\ calls >= 1
  /\ DOMAIN store = {OtherKey, obs.key}
  /\ store[obs.key] = WarmEntry
  /\ now > store[obs.key].expiresAt

\* C20 (no leaked timeout timer, as claimed): when request has settled, no
\* timeout timer armed by one of its attempts is still pending, and at no
\* time is more than one timer armed.
C20_NoLeakedTimer ==
  /\ Done => \A t \in timers : t.req # loads
  /\ Cardinality(timers) <= 1

====
